---- MODULE Spec2Model ----
(***************************************************************************)
(* Model of the batch job push_to_inat/scripts/main.py: one run of main,   *)
(* which loads the job descriptors of an email from the job bucket, fetches *)
(* the matching submissions, and for every submission pulls its images,    *)
(* backs the record up, uploads it to iNaturalist and deletes it at kobo,   *)
(* and finally deletes the job descriptors.                                 *)
(*                                                                         *)
(* Strings are sequences of one-character strings, so that the f-string,   *)
(* '/'.join and split('_') of the source are computed, not assumed.        *)
(* Every call to an external system (s3, the submissions API, kobo,        *)
(* iNaturalist) either succeeds or raises; the source has no try/except,   *)
(* so a raised exception leaves main.                                      *)
(***************************************************************************)
EXTENDS Integers, Sequences, FiniteSets, TLC

\* ---- bounds of the model ----
NumInstances == 2      \* instance ids that exist at kobo
MaxDescriptors == 2    \* job descriptors stored under the email
MaxRecords == 2        \* records in the response of the submissions API
MaxImages == 2         \* image references of one record
MaxFields == 1         \* observation fields of one record

VARIABLES
    pc,                 \* position of main
    job_bucket,         \* s3 job bucket: key -> parsed JSON content
    kobo_instances,     \* instances that exist at kobo
    backup_bucket,      \* s3 backup bucket: key -> body
    inat,               \* observations at iNaturalist, in creation order
    disk,               \* local files: path -> bytes
    response,           \* what the submissions API answers
    kobo_uid,           \* main: kobo_uid (None before get_job_data)
    credentials,        \* main: the six other values of the job
    instances,          \* main: instances
    objects_to_delete,  \* main: objects_to_delete
    submissions,        \* main: submissions
    clients,            \* main: TRUE once get_clients has built kobo, inaturalist
    r,                  \* main: index of `record` in submissions
    image_paths,        \* pull_images / main: image_paths
    n,                  \* index of the inner loop of the current function
    observation_id,     \* upload_to_inat: observation_id
    kobo_record,        \* backup_record: kobo_record
    d,                  \* main: index of `object` in objects_to_delete
    raised,             \* the function that raised, "" while none has
    calls               \* the calls to external systems that succeeded, in order

world == <<job_bucket, kobo_instances, backup_bucket, inat, disk>>
job == <<kobo_uid, credentials, instances, objects_to_delete>>
locals == <<r, image_paths, n, d>>

vars == <<pc, world, response, job, submissions, clients, locals,
          observation_id, kobo_record, raised, calls>>

\* Python's None, for a string-, a set- and a list-valued variable
None == <<"None">>
NoneSet == {None}
NoneList == <<None>>

\* ---- strings ----
Str(s) == s

RECURSIVE Join(_, _)
Join(sep, parts) ==
    IF Len(parts) = 0 THEN <<>>
    ELSE IF Len(parts) = 1 THEN parts[1]
    ELSE parts[1] \o sep \o Join(sep, Tail(parts))

\* s.split('_')[-1]: what follows the last underscore, all of s without one
LastSplit(s) ==
    LET us == {k \in 1..Len(s) : s[k] = "_"}
    IN  IF us = {} THEN s
        ELSE LET last == CHOOSE k \in us : \A j \in us : j <= k
             IN  SubSeq(s, last + 1, Len(s))

Digits == {"0", "1", "2", "3", "4", "5", "6", "7", "8", "9"}

\* int(field_id) raises ValueError unless the string is a decimal numeral
IntCoercible(s) == Len(s) > 0 /\ \A k \in 1..Len(s) : s[k] \in Digits

StartsWith(s, p) == Len(s) >= Len(p) /\ SubSeq(s, 1, Len(p)) = p

\* sequences over S without repetition, of length at most m
DistinctSeqs(S, m) ==
    UNION {{s \in [1..k -> S] : \A a, b \in 1..k : a # b => s[a] # s[b]} : k \in 0..m}

Range(s) == {s[k] : k \in 1..Len(s)}

\* ---- the environment: job bucket, kobo, submissions API ----
email == <<"e">>
OtherKey == <<"f", "1">>
KeySuffix == <<"1", "2", "3", "4">>
InstanceChars == <<"A", "B", "C", "D">>
uid == <<"u">>

InstanceIds == {<<InstanceChars[k]>> : k \in 1..NumInstances}

\* keys of the job bucket in the order s3 lists them (ascending)
SortedKeys ==
    [k \in 1..(MaxDescriptors + 1) |->
        IF k <= MaxDescriptors THEN email \o <<KeySuffix[k]>> ELSE OtherKey]

CredentialFields ==
    {"kobo_username", "kobo_password", "inaturalist_email",
     "inaturalist_password", "client_id", "client_secret"}

RequiredFields == CredentialFields \cup {"kobo_uid", "instances"}

\* a descriptor's JSON object; `missing` are the fields it lacks
Descriptor(array, missing) ==
    [f \in RequiredFields \ missing |->
        IF f = "instances" THEN array
        ELSE IF f = "kobo_uid" THEN uid
        ELSE <<f>>]

InstanceArrays == DistinctSeqs(InstanceIds, 1)

Descriptors ==
    {Descriptor(a, m) : a \in InstanceArrays,
                        m \in {{}} \cup {{f} : f \in RequiredFields}}

\* the descriptor of another email: it names every instance
OtherDescriptor == Descriptor([k \in 1..NumInstances |-> <<InstanceChars[k]>>], {})

JobBuckets ==
    UNION {{b \in [({OtherKey} \cup ks) -> Descriptors \cup {OtherDescriptor}] :
               /\ b[OtherKey] = OtherDescriptor
               /\ \A key \in ks : b[key] \in Descriptors} :
           ks \in SUBSET (Range(SortedKeys) \ {OtherKey})}

ImageNames == {<<"a", "_", "1">>, <<"b", "_", "1">>, <<"c">>}
FieldIds == {<<"7">>, <<"x">>}

\* dict items in iteration order: <<field_id, value>>
FieldItems == {fs \in DistinctSeqs(FieldIds \X {"v"}, MaxFields) :
                  \A a, b \in 1..Len(fs) : a # b => fs[a][1] # fs[b][1]}

\* taxa, longitude, latitude, ts, positional_accuracy, notes of an instance
BaseOf(instance) == <<"base">> \o instance

ImageLists == DistinctSeqs(ImageNames, MaxImages)

RecordsOf(instance) ==
    {[instance |-> instance, images |-> im, base |-> BaseOf(instance),
      observation_fields |-> fs] :
        im \in ImageLists, fs \in FieldItems}

\* a record without images and observation fields
PlainRecord(instance) ==
    [instance |-> instance, images |-> <<>>, base |-> BaseOf(instance),
     observation_fields |-> <<>>]

Records == UNION {RecordsOf(i) : i \in InstanceIds}

\* answers of the submissions API: the submissions of the form, one per
\* instance, in any order
AllResponses ==
    UNION {{resp \in [1..Len(is) -> Records] :
               \A k \in 1..Len(is) : resp[k].instance = is[k]} :
           is \in DistinctSeqs(InstanceIds, MaxRecords)}

\* get_submissions reads nothing but 'instance' of a record it drops, so the
\* records outside `insts` are enumerated plain
Responses(insts) ==
    {resp \in AllResponses :
        \A k \in 1..Len(resp) :
            resp[k].instance \notin insts => resp[k] = PlainRecord(resp[k].instance)}

\* what kobo holds for an instance (pull_instance) and an image (pull_image)
KoboRecord(instance) == <<"record">> \o instance
ImageBytes(instance, image) == <<"bytes">> \o instance \o image

Init ==
    /\ pc = "get_job_data"
    /\ job_bucket \in JobBuckets
    /\ kobo_instances = InstanceIds
    /\ backup_bucket = <<>>
    /\ inat = <<>>
    /\ disk = <<>>
    /\ response = <<>>
    /\ kobo_uid = None
    /\ credentials = [f \in CredentialFields |-> None]
    /\ instances = NoneSet
    /\ objects_to_delete = NoneList
    /\ submissions = <<>>
    /\ clients = FALSE
    /\ r = 0
    /\ image_paths = <<>>
    /\ n = 0
    /\ observation_id = 0
    /\ kobo_record = <<>>
    /\ d = 0
    /\ raised = ""
    /\ calls = <<>>

\* ---- get_job_data ----
\* bucket.objects.filter(Prefix=email)
Objects(prefix) ==
    SelectSeq(SortedKeys, LAMBDA key : key \in DOMAIN job_bucket /\ StartsWith(key, prefix))

\* JobLoop with `instances = set(content['instances'])` for line 38
RECURSIVE JobLoopLastWins(_, _, _)
JobLoopLastWins(objects, k, acc) ==
    IF k > Len(objects) THEN acc
    ELSE LET content == job_bucket[objects[k]]
         IN  IF ~(RequiredFields \subseteq DOMAIN content)
             THEN [acc EXCEPT !.raised = TRUE]
             ELSE JobLoopLastWins(objects, k + 1,
                     [raised |-> FALSE,
                      kobo_uid |-> content["kobo_uid"],
                      credentials |-> [f \in CredentialFields |-> content[f]],
                      instances |-> Range(content["instances"]),
                      objects_to_delete |-> Append(acc.objects_to_delete, objects[k])])

\* JobLoop with the KeyError caught and the descriptor skipped
RECURSIVE JobLoopSkipsMalformed(_, _, _)
JobLoopSkipsMalformed(objects, k, acc) ==
    IF k > Len(objects) THEN acc
    ELSE LET content == job_bucket[objects[k]]
         IN  IF ~(RequiredFields \subseteq DOMAIN content)
             THEN JobLoopSkipsMalformed(objects, k + 1,
                     [acc EXCEPT !.objects_to_delete = Append(@, objects[k])])
             ELSE JobLoopSkipsMalformed(objects, k + 1,
                     [raised |-> FALSE,
                      kobo_uid |-> content["kobo_uid"],
                      credentials |-> [f \in CredentialFields |-> content[f]],
                      instances |-> acc.instances \cup Range(content["instances"]),
                      objects_to_delete |-> Append(acc.objects_to_delete, objects[k])])

\* the loop over objects; a missing field raises KeyError
RECURSIVE JobLoop(_, _, _)
JobLoop(objects, k, acc) ==
    IF k > Len(objects) THEN acc
    ELSE LET content == job_bucket[objects[k]]
         IN  IF ~(RequiredFields \subseteq DOMAIN content)
             THEN [acc EXCEPT !.raised = TRUE]
             ELSE JobLoop(objects, k + 1,
                     [raised |-> FALSE,
                      kobo_uid |-> content["kobo_uid"],
                      credentials |-> [f \in CredentialFields |-> content[f]],
                      instances |-> acc.instances \cup Range(content["instances"]),
                      objects_to_delete |-> Append(acc.objects_to_delete, objects[k])])

get_job_data(prefix) ==
    LET objects == Objects(prefix)
    IN  IF Len(objects) = 0
        THEN [raised |-> FALSE, kobo_uid |-> None,
              credentials |-> [f \in CredentialFields |-> None],
              instances |-> NoneSet, objects_to_delete |-> NoneList]
        ELSE JobLoop(objects, 1,
                [raised |-> FALSE, kobo_uid |-> None,
                 credentials |-> [f \in CredentialFields |-> None],
                 instances |-> {}, objects_to_delete |-> <<>>])

\* where main continues after the record of index k (lines 184, 208)
AfterRecord(k) ==
    IF k < Len(submissions)
    THEN /\ r' = k + 1
         /\ image_paths' = <<>>
         /\ n' = 1
         /\ pc' = IF Len(submissions[k + 1].images) = 0 THEN "pull_instance" ELSE "pull_image"
         /\ d' = d
    ELSE /\ r' = k
         /\ image_paths' = image_paths
         /\ n' = n
         /\ d' = 1
         /\ pc' = IF Len(objects_to_delete) = 0 THEN "done" ELSE "delete_job"

RecordSteps ==
    {"pull_image", "pull_instance", "put_record", "put_image", "upload_base",
     "attach_image", "attach_field", "delete_instance"}

\* Raise with the body of the loop of main in a try/except that logs the
\* exception and goes on with the next record
RaiseCaughtInLoop(function) ==
    /\ raised' = function
    /\ IF pc \in RecordSteps
       THEN AfterRecord(r)
       ELSE /\ pc' = "raised"
            /\ UNCHANGED locals

\* an exception leaves main: nothing in the source catches it
Raise(function) ==
    /\ pc' = "raised"
    /\ raised' = function
    /\ UNCHANGED locals

\* Fails with a handler that removes the backup objects of the record at hand
FailsWithRollback(at, function) ==
    /\ pc = at
    /\ Raise(function)
    /\ backup_bucket' =
          IF at \in RecordSteps
          THEN LET kept == {key \in DOMAIN backup_bucket :
                              ~StartsWith(key, kobo_uid \o <<"/">> \o submissions[r].instance)}
               IN  [key \in kept |-> backup_bucket[key]]
          ELSE backup_bucket
    /\ UNCHANGED <<job_bucket, kobo_instances, inat, disk, response, job,
                   submissions, clients, observation_id, kobo_record, calls>>

\* the external call at position `at`, made by `function`, raises
Fails(at, function) ==
    /\ pc = at
    /\ Raise(function)
    /\ UNCHANGED <<world, response, job, submissions, clients,
                   observation_id, kobo_record, calls>>

Call(op, instance, arg) ==
    calls' = Append(calls, [op |-> op, instance |-> instance, arg |-> arg])

\* main without the early return of line 165
AfterJobDataNoReturn(kobo_username) == "get_submissions"

\* main, lines 164-165: `if kobo_username is None: return`
AfterJobData(kobo_username) ==
    IF kobo_username = None THEN "done" ELSE "get_submissions"

\* main, lines 159-165
GetJobData ==
    /\ pc = "get_job_data"
    /\ LET data == get_job_data(email)
       IN  \/ /\ data.raised
              /\ Raise("get_job_data")
              /\ UNCHANGED job
           \/ /\ ~data.raised
              /\ kobo_uid' = data.kobo_uid
              /\ credentials' = data.credentials
              /\ instances' = data.instances
              /\ objects_to_delete' = data.objects_to_delete
              /\ pc' = AfterJobData(data.credentials["kobo_username"])
              /\ UNCHANGED <<raised, locals>>
    /\ UNCHANGED <<world, response, submissions, clients,
                   observation_id, kobo_record, calls>>

\* listing or reading the job bucket fails
GetJobDataFails == Fails("get_job_data", "get_job_data")

\* ---- get_submissions ----
\* get_submissions without the condition of line 62
get_submissions_unfiltered(resp, insts) == resp

\* the comprehension of lines 60-63 over response.json()
get_submissions(resp, insts) ==
    SelectSeq(resp, LAMBDA submission : submission.instance \in insts)

\* main, lines 167-174: the request is answered and the answer filtered
GetSubmissions ==
    /\ pc = "get_submissions"
    /\ instances # NoneSet
    /\ response' \in Responses(instances)
    /\ submissions' = get_submissions(response', instances)
    /\ Call("get", None, <<"s", "u", "b", "m", "i", "s", "s", "i", "o", "n", "s">>)
    /\ pc' = "get_clients"
    /\ UNCHANGED <<world, job, clients, locals, observation_id, kobo_record,
                   raised>>

\* the request fails, times out, or its answer is not a JSON array of records
GetSubmissionsFails == Fails("get_submissions", "get_submissions")

\* ---- the loop of main over submissions ----
\* main, lines 176-183
GetClients ==
    /\ pc = "get_clients"
    /\ clients' = TRUE
    /\ AfterRecord(0)
    /\ UNCHANGED <<world, response, job, submissions, observation_id,
                   kobo_record, raised, calls>>

GetClientsFails == Fails("get_clients", "get_clients")

record == submissions[r]

Put(f, k, v) == [x \in DOMAIN f \cup {k} |-> IF x = k THEN v ELSE f[x]]

\* ---- pull_images ----
\* line 90: f'{kobo_uid}_{instance}_{image}'
ImagePath(kuid, instance, image) == kuid \o <<"_">> \o instance \o <<"_">> \o image

\* one iteration of the loop of lines 89-94
PullImage ==
    /\ pc = "pull_image"
    /\ record.instance \in kobo_instances
    /\ LET image == record.images[n]
           image_path == ImagePath(kobo_uid, record.instance, image)
       IN  /\ disk' = Put(disk, image_path, ImageBytes(record.instance, image))
           /\ image_paths' = Append(image_paths, image_path)
           /\ Call("pull_image", record.instance, image)
    /\ IF n < Len(record.images)
       THEN /\ n' = n + 1
            /\ pc' = pc
       ELSE /\ n' = 1
            /\ pc' = "pull_instance"
    /\ UNCHANGED <<job_bucket, kobo_instances, backup_bucket, inat, response, job,
                   submissions, clients, r, d, observation_id, kobo_record, raised>>

PullImageFails == Fails("pull_image", "pull_images")

\* ---- backup_record ----
\* RecordKey without the '.json' of line 107
RecordKeyNoSuffix(kuid, instance) == Join(<<"/">>, <<Str(kuid), Str(instance)>>)

\* line 107
RecordKey(kuid, instance) ==
    Join(<<"/">>, <<Str(kuid), Str(instance) \o <<".", "j", "s", "o", "n">> >>)

\* line 115
ImageKey(kuid, instance, image_path) ==
    Join(<<"/">>, <<Str(kuid), Str(instance),
                    LastSplit(image_path) \o <<".", "j", "p", "g">> >>)

\* line 103
PullInstance ==
    /\ pc = "pull_instance"
    /\ record.instance \in kobo_instances
    /\ kobo_record' = KoboRecord(record.instance)
    /\ Call("pull_instance", record.instance, <<>>)
    /\ pc' = "put_record"
    /\ UNCHANGED <<world, response, job, submissions, clients, locals,
                   observation_id, raised>>

PullInstanceFails == Fails("pull_instance", "backup_record")

\* lines 104-108
PutRecord ==
    /\ pc = "put_record"
    /\ LET key == RecordKey(kobo_uid, record.instance)
       IN  /\ backup_bucket' = Put(backup_bucket, key, kobo_record)
           /\ Call("put_object", record.instance, key)
    /\ n' = 1
    /\ pc' = IF Len(image_paths) = 0 THEN "upload_base" ELSE "put_image"
    /\ UNCHANGED <<job_bucket, kobo_instances, inat, disk, response, job,
                   submissions, clients, r, image_paths, d, observation_id,
                   kobo_record, raised>>

PutRecordFails == Fails("put_record", "backup_record")

\* PutImage with the put_object of line 112 after the loop instead of in it
PutImageAfterLoop ==
    /\ pc = "put_image"
    /\ LET image_path == image_paths[n]
           key == ImageKey(kobo_uid, record.instance, image_path)
       IN  /\ image_path \in DOMAIN disk
           /\ IF n < Len(image_paths)
              THEN UNCHANGED <<backup_bucket, calls>>
              ELSE /\ backup_bucket' = Put(backup_bucket, key, disk[image_path])
                   /\ Call("put_object", record.instance, key)
    /\ IF n < Len(image_paths)
       THEN /\ n' = n + 1
            /\ pc' = pc
       ELSE /\ n' = 1
            /\ pc' = "upload_base"
    /\ UNCHANGED <<job_bucket, kobo_instances, inat, disk, response, job,
                   submissions, clients, r, image_paths, d, observation_id,
                   kobo_record, raised>>

\* one iteration of the loop of lines 110-116
PutImage ==
    /\ pc = "put_image"
    /\ LET image_path == image_paths[n]
           key == ImageKey(kobo_uid, record.instance, image_path)
       IN  /\ image_path \in DOMAIN disk
           /\ backup_bucket' = Put(backup_bucket, key, disk[image_path])
           /\ Call("put_object", record.instance, key)
    /\ IF n < Len(image_paths)
       THEN /\ n' = n + 1
            /\ pc' = pc
       ELSE /\ n' = 1
            /\ pc' = "upload_base"
    /\ UNCHANGED <<job_bucket, kobo_instances, inat, disk, response, job,
                   submissions, clients, r, image_paths, d, observation_id,
                   kobo_record, raised>>

PutImageFails == Fails("put_image", "backup_record")

\* ---- upload_to_inat ----
DigitValue(c) == CHOOSE v \in 0..9 : <<"0", "1", "2", "3", "4", "5", "6", "7", "8", "9">>[v + 1] = c

\* int(field_id) of a decimal numeral
RECURSIVE int(_)
int(s) == IF Len(s) = 0 THEN 0
          ELSE 10 * int(SubSeq(s, 1, Len(s) - 1)) + DigitValue(s[Len(s)])

\* position after the call numbered n of a loop over `items`
AfterLoop(items, next) ==
    IF n < Len(items)
    THEN /\ n' = n + 1
         /\ pc' = pc
    ELSE /\ n' = 1
         /\ pc' = next

\* lines 122-129
UploadBase ==
    /\ pc = "upload_base"
    /\ inat' = Append(inat, [base |-> record.base, images |-> <<>>, fields |-> <<>>])
    /\ observation_id' = Len(inat) + 1
    /\ Call("upload_base_observation", record.instance, record.base)
    /\ n' = 1
    /\ pc' = IF Len(image_paths) > 0 THEN "attach_image"
             ELSE IF Len(record.observation_fields) > 0 THEN "attach_field"
             ELSE "delete_instance"
    /\ UNCHANGED <<job_bucket, kobo_instances, backup_bucket, disk, response, job,
                   submissions, clients, r, image_paths, d, kobo_record, raised>>

UploadBaseFails == Fails("upload_base", "upload_to_inat")

\* AttachImage with the loop of line 132 over reversed(image_paths)
AttachImageReversed ==
    /\ pc = "attach_image"
    /\ LET image_path == image_paths[Len(image_paths) + 1 - n]
       IN  /\ image_path \in DOMAIN disk
           /\ inat' = [inat EXCEPT ![observation_id].images =
                           Append(@, [path |-> image_path, bytes |-> disk[image_path]])]
           /\ Call("attach_image", record.instance, image_path)
    /\ AfterLoop(image_paths,
                 IF Len(record.observation_fields) > 0 THEN "attach_field"
                 ELSE "delete_instance")
    /\ UNCHANGED <<job_bucket, kobo_instances, backup_bucket, disk, response, job,
                   submissions, clients, r, image_paths, d, observation_id,
                   kobo_record, raised>>

\* one iteration of the loop of lines 132-135
AttachImage ==
    /\ pc = "attach_image"
    /\ image_paths[n] \in DOMAIN disk
    /\ inat' = [inat EXCEPT ![observation_id].images =
                    Append(@, [path |-> image_paths[n], bytes |-> disk[image_paths[n]]])]
    /\ Call("attach_image", record.instance, image_paths[n])
    /\ AfterLoop(image_paths,
                 IF Len(record.observation_fields) > 0 THEN "attach_field"
                 ELSE "delete_instance")
    /\ UNCHANGED <<job_bucket, kobo_instances, backup_bucket, disk, response, job,
                   submissions, clients, r, image_paths, d, observation_id,
                   kobo_record, raised>>

AttachImageFails == Fails("attach_image", "upload_to_inat")

\* one iteration of the loop of lines 138-141
AttachField ==
    /\ pc = "attach_field"
    /\ LET field_id == record.observation_fields[n][1]
           value == record.observation_fields[n][2]
       IN  /\ IntCoercible(field_id)
           /\ inat' = [inat EXCEPT ![observation_id].fields =
                           Append(@, <<int(field_id), value>>)]
           /\ Call("attach_observation_field", record.instance, field_id)
    /\ AfterLoop(record.observation_fields, "delete_instance")
    /\ UNCHANGED <<job_bucket, kobo_instances, backup_bucket, disk, response, job,
                   submissions, clients, r, image_paths, d, observation_id,
                   kobo_record, raised>>

\* the call of lines 139-141 fails
AttachFieldFails == Fails("attach_field", "upload_to_inat")

\* line 140: int(field_id) raises ValueError
AttachFieldInvalid ==
    /\ pc = "attach_field"
    /\ ~IntCoercible(record.observation_fields[n][1])
    /\ Fails("attach_field", "upload_to_inat")

\* ---- main, line 204 ----
DeleteInstance ==
    /\ pc = "delete_instance"
    /\ kobo_instances' = kobo_instances \ {record.instance}
    /\ Call("delete_instance", record.instance, <<>>)
    /\ AfterRecord(r)
    /\ UNCHANGED <<job_bucket, backup_bucket, inat, disk, response, job,
                   submissions, clients, observation_id, kobo_record, raised>>

DeleteInstanceFails == Fails("delete_instance", "delete_instance")

\* DeleteJob with a return inside the loop of lines 208-209
DeleteJobReturnsInLoop ==
    /\ pc = "delete_job"
    /\ LET object == objects_to_delete[d]
       IN  /\ job_bucket' = [key \in DOMAIN job_bucket \ {object} |-> job_bucket[key]]
           /\ Call("delete", None, object)
    /\ d' = d
    /\ pc' = "done"
    /\ UNCHANGED <<kobo_instances, backup_bucket, inat, disk, response, job,
                   submissions, clients, r, image_paths, n, observation_id,
                   kobo_record, raised>>

\* DeleteJob deleting whatever the prefix lists at deletion time
DeleteJobRelists ==
    /\ pc = "delete_job"
    /\ job_bucket' = [key \in {k \in DOMAIN job_bucket : ~StartsWith(k, email)} |->
                          job_bucket[key]]
    /\ Call("delete", None, objects_to_delete[d])
    /\ d' = d
    /\ pc' = "done"
    /\ UNCHANGED <<kobo_instances, backup_bucket, inat, disk, response, job,
                   submissions, clients, r, image_paths, n, observation_id,
                   kobo_record, raised>>

\* ---- main, lines 208-209 ----
DeleteJob ==
    /\ pc = "delete_job"
    /\ LET object == objects_to_delete[d]
       IN  /\ job_bucket' = [key \in DOMAIN job_bucket \ {object} |-> job_bucket[key]]
           /\ Call("delete", None, object)
    /\ IF d < Len(objects_to_delete)
       THEN /\ d' = d + 1
            /\ pc' = pc
       ELSE /\ d' = d
            /\ pc' = "done"
    /\ UNCHANGED <<kobo_instances, backup_bucket, inat, disk, response, job,
                   submissions, clients, r, image_paths, n, observation_id,
                   kobo_record, raised>>

DeleteJobFails == Fails("delete_job", "delete")

Next ==
    \/ GetJobData \/ GetJobDataFails
    \/ GetSubmissions \/ GetSubmissionsFails
    \/ GetClients \/ GetClientsFails
    \/ PullImage \/ PullImageFails
    \/ PullInstance \/ PullInstanceFails
    \/ PutRecord \/ PutRecordFails
    \/ PutImage \/ PutImageFails
    \/ UploadBase \/ UploadBaseFails
    \/ AttachImage \/ AttachImageFails
    \/ AttachField \/ AttachFieldFails \/ AttachFieldInvalid
    \/ DeleteInstance \/ DeleteInstanceFails
    \/ DeleteJob \/ DeleteJobFails

Spec == Init /\ [][Next]_vars

\* the steps of a run in which no call to an external system fails
NextWithoutFailedCall ==
    \/ GetJobData
    \/ GetSubmissions
    \/ GetClients
    \/ PullImage
    \/ PullInstance
    \/ PutRecord
    \/ PutImage
    \/ UploadBase
    \/ AttachImage
    \/ AttachField \/ AttachFieldInvalid
    \/ DeleteInstance
    \/ DeleteJob

\* main is one sequential process: it takes its next step as long as it has one
SpecWithoutFailedCall ==
    Init /\ [][NextWithoutFailedCall]_vars /\ WF_vars(NextWithoutFailedCall)

\* ---- a descriptor written while main runs ----
\* the key of a descriptor created after line 20 listed the bucket
LateKey == email \o <<"9">>

\* the creator of descriptors puts one more object under the email prefix
\* while main is between the listing of line 20 and its end
PutDescriptor ==
    /\ pc \notin {"get_job_data", "done", "raised"}
    /\ LateKey \notin DOMAIN job_bucket
    /\ \E array \in InstanceArrays :
           job_bucket' = [key \in DOMAIN job_bucket \cup {LateKey} |->
                             IF key = LateKey THEN Descriptor(array, {})
                             ELSE job_bucket[key]]
    /\ UNCHANGED <<pc, kobo_instances, backup_bucket, inat, disk, response, job,
                   submissions, clients, locals, observation_id, kobo_record,
                   raised, calls>>

ConcurrentNext == Next \/ PutDescriptor

ConcurrentSpec == Init /\ [][ConcurrentNext]_vars

\* ---- main run again after a run that raised ----
\* the log holds the start of a second run
Rerunning == \E p \in 1..Len(calls) : calls[p].op = "main"

\* main is started again: the stores are as the first run left them, the
\* variables of main are fresh
Rerun ==
    /\ pc = "raised"
    /\ ~Rerunning
    /\ pc' = "get_job_data"
    /\ kobo_uid' = None
    /\ credentials' = [f \in CredentialFields |-> None]
    /\ instances' = NoneSet
    /\ objects_to_delete' = NoneList
    /\ submissions' = <<>>
    /\ clients' = FALSE
    /\ r' = 0
    /\ image_paths' = <<>>
    /\ n' = 0
    /\ observation_id' = 0
    /\ kobo_record' = <<>>
    /\ d' = 0
    /\ raised' = ""
    /\ Call("main", None, <<>>)
    /\ UNCHANGED <<world, response>>

\* lines 59-63 in the second run: the API answers with the submissions that
\* kobo still holds
GetSubmissionsAgain ==
    /\ pc = "get_submissions"
    /\ response' = SelectSeq(response, LAMBDA submission :
                                 submission.instance \in kobo_instances)
    /\ submissions' = get_submissions(response', instances)
    /\ Call("get", None, <<"s", "u", "b", "m", "i", "s", "s", "i", "o", "n", "s">>)
    /\ pc' = "get_clients"
    /\ UNCHANGED <<world, job, clients, locals, observation_id, kobo_record, raised>>

\* the second run, in which no external call fails
SecondRun ==
    \/ GetJobData
    \/ GetSubmissionsAgain
    \/ GetClients
    \/ PullImage
    \/ PullInstance
    \/ PutRecord
    \/ PutImage
    \/ UploadBase
    \/ AttachImage
    \/ AttachField
    \/ AttachFieldInvalid
    \/ DeleteInstance
    \/ DeleteJob

RerunNext ==
    \/ ~Rerunning /\ Next
    \/ Rerun
    \/ Rerunning /\ SecondRun

RerunSpec == Init /\ [][RerunNext]_vars

TypeOK ==
    /\ pc \in {"get_job_data", "get_submissions", "get_clients", "pull_image",
               "pull_instance", "put_record", "put_image", "upload_base",
               "attach_image", "attach_field", "delete_instance", "delete_job",
               "done", "raised"}
    /\ kobo_instances \subseteq InstanceIds
    /\ (pc = "raised") = (raised # "")

\* ---- what the calls made so far say ----
Made(op, instance, arg, p) ==
    \E q \in 1..(p - 1) :
        calls[q].op = op /\ calls[q].instance = instance /\ calls[q].arg = arg

Count(op, instance, p) ==
    Cardinality({q \in 1..(p - 1) : calls[q].op = op /\ calls[q].instance = instance})

Deleted(instance) ==
    \E p \in 1..Len(calls) : calls[p].op = "delete_instance" /\ calls[p].instance = instance

JobDeleted == \E p \in 1..Len(calls) : calls[p].op = "delete"

json == <<".", "j", "s", "o", "n">>

\* the record body and every image were put before call p
BackedUpBefore(rec, p) ==
    /\ Made("pull_instance", rec.instance, <<>>, p)
    /\ Made("put_object", rec.instance, kobo_uid \o <<"/">> \o rec.instance \o json, p)
    /\ Count("put_object", rec.instance, p) = 1 + Len(rec.images)

\* the observation was created and every image and field attached before call p
UploadedBefore(rec, p) ==
    /\ Made("upload_base_observation", rec.instance, rec.base, p)
    /\ \A m \in 1..Len(rec.images) :
          Made("attach_image", rec.instance,
               kobo_uid \o <<"_">> \o rec.instance \o <<"_">> \o rec.images[m], p)
    /\ \A f \in 1..Len(rec.observation_fields) :
          Made("attach_observation_field", rec.instance, rec.observation_fields[f][1], p)

RecordFailures == {"pull_images", "backup_record", "upload_to_inat"}

\* C1: kobo.delete_instance is called for an instance only after the record
\* body and every image of its record were put into the backup bucket and the
\* observation was created with every image and every observation field
\* attached; when pull_images, backup_record or upload_to_inat raises for a
\* record, the instance of that record still exists at kobo.
DeleteOnlyAfterBackupAndUpload ==
    /\ \A p \in 1..Len(calls) :
          calls[p].op = "delete_instance" =>
              \E k \in 1..Len(submissions) :
                  /\ submissions[k].instance = calls[p].instance
                  /\ BackedUpBefore(submissions[k], p)
                  /\ UploadedBefore(submissions[k], p)
    /\ raised \in RecordFailures =>
          /\ record.instance \in kobo_instances
          /\ ~Deleted(record.instance)

\* the second record failed in the upload after the first, with two images and
\* a field, was deleted at kobo
DeletedThenFailed ==
    /\ raised = "upload_to_inat"
    /\ r = 2
    /\ Deleted(submissions[1].instance)
    /\ Len(submissions[1].images) = 2
    /\ Len(submissions[1].observation_fields) = 1

\* C2: when pull_images, backup_record, upload_to_inat or kobo.delete_instance
\* raised for a record, no object of objects_to_delete has been deleted.
NoJobDeletionAfterRecordFailure ==
    raised \in RecordFailures \cup {"delete_instance"} =>
        /\ ~JobDeleted
        /\ \A k \in 1..Len(objects_to_delete) : objects_to_delete[k] \in DOMAIN job_bucket

\* the backup of the second record failed, two descriptors were to be deleted
BackupOfSecondFailed ==
    /\ raised = "backup_record"
    /\ r = 2
    /\ Deleted(submissions[1].instance)
    /\ Len(objects_to_delete) = 2

Untouched ==
    /\ DOMAIN backup_bucket = {}
    /\ DOMAIN disk = {}
    /\ inat = <<>>
    /\ kobo_instances = InstanceIds

\* C3: when the job bucket holds no descriptor whose key starts with the email,
\* main returns without a request to the submissions API, without building the
\* clients, and without writing or deleting anything.
AbsentJobIsNoOp ==
    (Objects(email) = <<>> /\ ~JobDeleted) =>
        /\ pc \in {"get_job_data", "done", "raised"}
        /\ pc = "raised" => raised = "get_job_data"
        /\ calls = <<>>
        /\ ~clients
        /\ Untouched
        /\ OtherKey \in DOMAIN job_bucket

\* main has returned and there was no descriptor
AbsentJobReturned ==
    /\ Objects(email) = <<>>
    /\ ~JobDeleted
    /\ pc = "done"

MalformedListed ==
    \E k \in 1..Len(Objects(email)) :
        ~(RequiredFields \subseteq DOMAIN job_bucket[Objects(email)[k]])

MutatingOps ==
    {"put_object", "upload_base_observation", "attach_image",
     "attach_observation_field", "delete_instance", "delete"}

\* C4: when a descriptor lacks a required field, or the submissions request
\* fails, main stops before any mutation: nothing is written to the backup
\* bucket, no observation is created, no instance and no descriptor is deleted.
JobLevelErrorMutatesNothing ==
    (MalformedListed \/ raised \in {"get_job_data", "get_submissions"}) =>
        /\ pc \in {"get_job_data", "raised"}
        /\ \A p \in 1..Len(calls) : calls[p].op \notin MutatingOps
        /\ Untouched
        /\ ~clients

\* get_job_data raised on the second of two descriptors
SecondDescriptorMalformed ==
    /\ pc = "raised"
    /\ raised = "get_job_data"
    /\ Len(Objects(email)) = 2
    /\ RequiredFields \subseteq DOMAIN job_bucket[Objects(email)[1]]
    /\ ~(RequiredFields \subseteq DOMAIN job_bucket[Objects(email)[2]])

\* main has left record k behind with every step done
Completed(k) ==
    \/ k < r
    \/ k = r /\ (pc \in {"delete_job", "done"} \/ raised = "delete")

LocalImagesReleased ==
    /\ pc \in {"done", "raised"} => DOMAIN disk = {}
    /\ \A k \in 1..(r - 1) : \A m \in 1..Len(submissions[k].images) :
          (kobo_uid \o <<"_">> \o submissions[k].instance \o <<"_">> \o submissions[k].images[m])
              \notin DOMAIN disk

\* C7: for every record whose steps all succeeded, the backup bucket holds the
\* record body under {kobo_uid}/{instance}.json and the instance is gone at kobo.
CompletedRecordBackedUpAndGone ==
    \A k \in 1..Len(submissions) :
        Completed(k) =>
            LET key == kobo_uid \o <<"/">> \o submissions[k].instance \o json
            IN  /\ key \in DOMAIN backup_bucket
                /\ backup_bucket[key] = <<"record">> \o submissions[k].instance
                /\ submissions[k].instance \notin kobo_instances

\* main returned after two records
TwoRecordsCompleted ==
    /\ pc = "done"
    /\ Len(submissions) = 2
    /\ r = 2

\* backup_record has returned for record k
BackupDone(k) ==
    \/ k < r
    \/ k = r /\ \/ pc \in {"upload_base", "attach_image", "attach_field",
                           "delete_instance", "delete_job", "done"}
                \/ raised \in {"upload_to_inat", "delete_instance", "delete"}

\* C8: for every backed-up record the backup bucket holds as many image
\* objects under {kobo_uid}/{instance}/ as the record has image references.
ImageBackupsDistinct ==
    \A k \in 1..Len(submissions) :
        BackupDone(k) =>
            Cardinality({key \in DOMAIN backup_bucket :
                            StartsWith(key, kobo_uid \o <<"/">> \o submissions[k].instance \o <<"/">>)})
                = Len(submissions[k].images)

ListedKeys == {key \in DOMAIN job_bucket : StartsWith(key, email)}

JobLoaded ==
    /\ pc # "get_job_data"
    /\ raised # "get_job_data"
    /\ ListedKeys # {}
    /\ ~JobDeleted

\* C9: for a non-empty set of descriptors under the email, instances is the
\* union of their 'instances' arrays and objects_to_delete is exactly them.
InstancesAreUnionOfDescriptors ==
    JobLoaded =>
        /\ instances = UNION {Range(job_bucket[key]["instances"]) : key \in ListedKeys}
        /\ Range(objects_to_delete) = ListedKeys
        /\ Len(objects_to_delete) = Cardinality(ListedKeys)

\* two descriptors naming different instances were merged
TwoDescriptorsMerged ==
    /\ JobLoaded
    /\ Len(objects_to_delete) = 2
    /\ Cardinality(instances) = 2

Fetched == \E p \in 1..Len(calls) : calls[p].op = "get"

\* sub is resp without the records whose instance is outside insts
IsSelection(sub, resp, insts) ==
    \E f \in [1..Len(sub) -> 1..Len(resp)] :
        /\ \A a, b \in 1..Len(sub) : a < b => f[a] < f[b]
        /\ \A a \in 1..Len(sub) : sub[a] = resp[f[a]]
        /\ \A j \in 1..Len(resp) :
              (resp[j].instance \in insts) <=> (\E a \in 1..Len(sub) : f[a] = j)

\* C10: submissions is the subsequence, in response order, of the records of
\* the response whose 'instance' is in instances; calls are made for these
\* records only, and for each of them when main returns.
SubmissionsAreTheMatchingRecords ==
    Fetched =>
        /\ IsSelection(submissions, response, instances)
        /\ \A p \in 1..Len(calls) :
              calls[p].instance # None =>
                  \E k \in 1..Len(submissions) :
                      /\ submissions[k].instance = calls[p].instance
                      /\ submissions[k].instance \in instances
        /\ pc = "done" => \A k \in 1..Len(submissions) : Deleted(submissions[k].instance)

\* of two records answered, the first was dropped and the second processed
FirstDroppedSecondProcessed ==
    /\ pc = "done"
    /\ Len(response) = 2
    /\ Len(submissions) = 1
    /\ submissions[1] = response[2]
    /\ Deleted(response[2].instance)

\* C12: the first descriptor is deleted only after kobo.delete_instance was
\* called for every record of submissions; when the job is present and
\* submissions is empty, main still deletes the descriptors.
DescriptorsDeletedAfterAllRecords ==
    /\ \A p \in 1..Len(calls) :
          calls[p].op = "delete" =>
              \A k \in 1..Len(submissions) :
                  Made("delete_instance", submissions[k].instance, <<>>, p)
    /\ (pc = "done" /\ Fetched /\ Len(submissions) = 0) =>
          /\ JobDeleted
          /\ \A k \in 1..Len(objects_to_delete) :
                objects_to_delete[k] \notin DOMAIN job_bucket

\* the first of two descriptors was deleted after two records were processed
FirstDescriptorDeletedAfterTwoRecords ==
    /\ pc = "delete_job"
    /\ d = 2
    /\ JobDeleted
    /\ Len(submissions) = 2

CallsFor(op, instance) ==
    {p \in 1..Len(calls) : calls[p].op = op /\ calls[p].instance = instance}

RecordOf(instance) ==
    submissions[CHOOSE k \in 1..Len(submissions) : submissions[k].instance = instance]

\* C13: for each record every image is pulled before the record is read and
\* written to the backup bucket, and the record body and all images are in
\* the backup bucket before the observation is created or anything attached.
MaterializeThenBackupThenUpload ==
    \A p \in 1..Len(calls) :
        /\ calls[p].op \in {"pull_instance", "put_object"} =>
              \A m \in 1..Len(RecordOf(calls[p].instance).images) :
                  Made("pull_image", calls[p].instance,
                       RecordOf(calls[p].instance).images[m], p)
        /\ calls[p].op \in {"upload_base_observation", "attach_image",
                            "attach_observation_field"} =>
              BackedUpBefore(RecordOf(calls[p].instance), p)
        /\ calls[p].op = "pull_image" =>
              Count("put_object", calls[p].instance, p) = 0

\* the upload of the second record, which has two images, has begun
UploadOfSecondBegun ==
    /\ pc = "attach_image"
    /\ r = 2
    /\ Len(record.images) = 2

\* upload_to_inat has returned for record k
UploadDone(k) ==
    \/ k < r
    \/ k = r /\ \/ pc \in {"delete_instance", "delete_job", "done"}
                \/ raised \in {"delete_instance", "delete"}

\* C14: one base observation is created per record, before any attachment;
\* the images are attached in the order of record['images'], and every image
\* before any observation field.
UploadOrder ==
    \A k \in 1..Len(submissions) :
        LET rec == submissions[k]
            bases == CallsFor("upload_base_observation", rec.instance)
            imgs == CallsFor("attach_image", rec.instance)
            flds == CallsFor("attach_observation_field", rec.instance)
        IN  /\ Cardinality(bases) <= 1
            /\ \A a \in imgs \cup flds : \E b \in bases : b < a
            /\ \A a \in imgs : \A f \in flds : a < f
            /\ \A a \in imgs :
                  calls[a].arg = kobo_uid \o <<"_">> \o rec.instance \o <<"_">>
                                    \o rec.images[Cardinality({x \in imgs : x <= a})]
            /\ \A f \in flds :
                  calls[f].arg =
                      rec.observation_fields[Cardinality({x \in flds : x <= f})][1]
            /\ UploadDone(k) =>
                  /\ Cardinality(bases) = 1
                  /\ Cardinality(imgs) = Len(rec.images)
                  /\ Cardinality(flds) = Len(rec.observation_fields)
                  /\ \E o \in 1..Len(inat) :
                        /\ inat[o].base = rec.base
                        /\ Len(inat[o].images) = Len(rec.images)
                        /\ \A m \in 1..Len(rec.images) :
                              inat[o].images[m].bytes =
                                  <<"bytes">> \o rec.instance \o rec.images[m]

\* a record with two images and a field has been uploaded
TwoImagesAndFieldUploaded ==
    /\ pc = "delete_instance"
    /\ Len(record.images) = 2
    /\ Len(record.observation_fields) = 1

IsPrefix(s, t) == Len(s) <= Len(t) /\ SubSeq(t, 1, Len(s)) = s

\* C16: no step removes an object from the backup bucket, an observation
\* from iNaturalist, or an image or field from an observation.
NoRollback ==
    [][/\ DOMAIN backup_bucket \subseteq DOMAIN backup_bucket'
       /\ Len(inat) <= Len(inat')
       /\ \A o \in 1..Len(inat) :
             /\ inat'[o].base = inat[o].base
             /\ IsPrefix(inat[o].images, inat'[o].images)
             /\ IsPrefix(inat[o].fields, inat'[o].fields)]_vars

\* kobo.delete_instance raised after the backup and the upload of a record
DeleteFailedAfterBackupAndUpload ==
    /\ raised = "delete_instance"
    /\ Len(inat) = 1
    /\ Len(inat[1].images) = 2
    /\ Cardinality(DOMAIN backup_bucket) = 3

\* C18: every call for an instance is for an instance in instances; the
\* instances outside it stay at kobo, and nothing of them is on disk, in the
\* backup bucket or at iNaturalist.
OnlyJobInstancesTouched ==
    /\ \A p \in 1..Len(calls) :
          calls[p].instance # None => calls[p].instance \in instances
    /\ \A i \in InstanceIds \ instances :
          /\ i \in kobo_instances
          /\ \A key \in DOMAIN backup_bucket : ~StartsWith(key, uid \o <<"/">> \o i)
          /\ \A path \in DOMAIN disk : ~StartsWith(path, uid \o <<"_">> \o i \o <<"_">>)
          /\ \A o \in 1..Len(inat) : inat[o].base # <<"base">> \o i

\* of two records answered, the first was processed and the second dropped
FirstProcessedSecondDropped ==
    /\ pc = "done"
    /\ Len(response) = 2
    /\ Len(submissions) = 1
    /\ submissions[1] = response[1]
    /\ Deleted(response[1].instance)
    /\ response[2].instance \in kobo_instances

JobPresent == ListedKeys # {} \/ JobDeleted

\* every record of submissions is backed up, uploaded and deleted at kobo, and
\* every descriptor of objects_to_delete is deleted
AllMigrated ==
    /\ \A k \in 1..Len(submissions) :
          /\ BackedUpBefore(submissions[k], Len(calls) + 1)
          /\ UploadedBefore(submissions[k], Len(calls) + 1)
          /\ Deleted(submissions[k].instance)
          /\ submissions[k].instance \notin kobo_instances
    /\ \A k \in 1..Len(objects_to_delete) :
          /\ Made("delete", None, objects_to_delete[k], Len(calls) + 1)
          /\ objects_to_delete[k] \notin DOMAIN job_bucket
    /\ ListedKeys = {}

InvalidFieldAtHand ==
    /\ pc = "raised"
    /\ raised = "upload_to_inat"
    /\ n \in 1..Len(record.observation_fields)
    /\ ~IntCoercible(record.observation_fields[n][1])

LoadedJobKept ==
    pc # "get_job_data" =>
        (instances' = instances /\ objects_to_delete' = objects_to_delete)

\* a step leaves the late descriptor where it is
LateKept ==
    LateKey \in DOMAIN job_bucket =>
        (LateKey \in DOMAIN job_bucket' /\ job_bucket'[LateKey] = job_bucket[LateKey])

\* C17: a descriptor written under the email prefix while main runs stays in
\* the job bucket with its content, is never in objects_to_delete, leaves
\* instances as loaded, and every job-bucket delete is of a listed key.
LateDescriptorLeftAlone ==
    /\ [](LateKey \notin Range(objects_to_delete))
    /\ [](\A p \in 1..Len(calls) :
            calls[p].op = "delete" => calls[p].arg \in Range(objects_to_delete))
    /\ [][LoadedJobKept]_vars
    /\ [][LateKept]_vars

\* main returned after deleting its descriptors; the late one, naming an
\* instance outside the job, is the only one left under the email
LateDescriptorSurvives ==
    /\ pc = "done"
    /\ JobDeleted
    /\ ListedKeys = {LateKey}
    /\ \E k \in 1..Len(job_bucket[LateKey].instances) :
           job_bucket[LateKey].instances[k] \notin instances

\* observations at the destination made from the record of an instance
ObservationsOf(instance) == {o \in 1..Len(inat) : inat[o].base = BaseOf(instance)}

\* C11: after a second run of main that follows a run which raised, every
\* record the second run processed is gone from kobo, has its body in the
\* backup bucket and has exactly one observation at the destination.
RerunIsIdempotent ==
    (Rerunning /\ pc = "done") =>
        \A k \in 1..Len(submissions) :
            /\ submissions[k].instance \notin kobo_instances
            /\ RecordKey(kobo_uid, submissions[k].instance) \in DOMAIN backup_bucket
            /\ Cardinality(ObservationsOf(submissions[k].instance)) = 1

====
